---- MODULE Spec2Model ----
(***************************************************************************)
(* The callback-to-poll bridge of the NSURLSession backend                 *)
(* (backends/nsurlsession/src/datatask/delegate.rs): the delegate's three  *)
(* callbacks run on the transport's thread, one at a time, and the         *)
(* consumer polls the shared state from its own thread.  Every callback    *)
(* and every poll is split at the points where the other thread can        *)
(* observe the shared state between two of its statements.                 *)
(***************************************************************************)
EXTENDS Integers, Sequences, FiniteSets, TLC

\* ---------------------------------------------------------------- bounds
MaxData == 2          \* data events the transport delivers per transfer
MaxChunkLen == 2      \* bytes in one data event
MaxBufferSize == 2    \* largest configured max_response_buffer_size
MaxHeaders == 1       \* headers events the transport delivers per transfer
MaxStrLen == 3        \* bytes in an input of curl_escape

\* ---------------------------------------------------------------- values
NoError == "None"
ResponseTooLarge == "ResponseTooLarge"
TransportError == "TransportError"

\* Option<Retained<NSURLResponse>>: id 0 is None; http tells whether the
\* object is an NSHTTPURLResponse (the downcast of line 169 succeeds).
NoResponse == [id |-> 0, http |-> FALSE]

NoArg == [chunk |-> <<>>, error |-> NoError, resp |-> NoResponse]

NoResult == [op |-> "none", ok |-> TRUE, err |-> NoError, bytes |-> <<>>,
             resp |-> NoResponse, flag |-> FALSE]

\* The bytes a + 1 .. a + n: every delivered byte is distinct, so a lost,
\* repeated or reordered byte shows.
RECURSIVE Serial(_, _)
Serial(a, n) == IF n = 0 THEN <<>> ELSE Append(Serial(a, n - 1), a + n)

VARIABLES
    max_response_buffer_size, \* Option<u64>: {} is None, {n} is Some(n)
    response,                 \* shared.response
    completed,                \* shared.completed
    received_error,           \* shared.received_error
    response_buffer,          \* shared.response_buffer
    waker,                    \* shared.waker: a wake is pending
    buffer_lock,              \* holder of the response_buffer mutex
    error_lock,               \* holder of the received_error mutex
    suspend_count,            \* the data task: suspend() not yet resumed
    cancel_count,             \* the data task: cancel() calls received
    finished,                 \* the transport has delivered its terminal event
    cbpc,                     \* position of the callback thread
    cb_arg,                   \* argument of the running callback
    cpc,                      \* position of the consumer thread
    last_result,              \* what the call that has just returned gave the consumer
    n_data, n_headers, n_bytes, \* events and bytes delivered so far
    accepted,                 \* history: the chunks appended, in arrival order
    taken,                    \* history: the successful buffer takes, in call order
    since_take,               \* history: bytes appended since the last successful take
    hdr_pending,              \* history: the headers arrival stored and not yet swapped out
    resp_log,                 \* history: ids try_take_response has returned
    n_set_error,              \* history: set_error calls made
    n_over,                   \* history: chunks that did not fit when their callback locked the buffer
    err_log,                  \* history: the errors polls have returned, in call order
    observed_completed,       \* history: is_completed() has returned true
    rtl_due,                  \* history: a rejection's error was captured, no poll took an error since
    term_due,                 \* history: the terminal error captured, no poll took an error since
    first_due,                \* history: the first error captured since the last poll took one
    term_error,               \* history: the error the terminal event carried
    term_captured,            \* history: line 131 has run for the terminal event
    str,                      \* curl_escape: the input bytes
    buf,                      \* curl_escape: the buffer being rewritten
    idx,                      \* curl_escape: where the next search starts
    escpc,                    \* curl_escape: position in the function
    n_escape                  \* curl_escape: calls of curl_easy_escape made

shared == <<response, completed, received_error, response_buffer, waker, buffer_lock>>
task == <<suspend_count, cancel_count, finished>>
counters == <<n_data, n_headers, n_bytes>>
bufhist == <<accepted, taken, since_take>>
resphist == <<hdr_pending, resp_log>>
errhist == <<n_set_error, n_over, err_log, observed_completed, rtl_due, term_due,
             first_due, term_error, term_captured>>
escape == <<str, buf, idx, escpc, n_escape>>
fixed == <<max_response_buffer_size, escape>>
vars == <<fixed, error_lock, shared, task, cbpc, cb_arg, cpc, last_result, counters, bufhist,
          resphist, errhist>>

\* DataTaskDelegate::new
BridgeInit ==
    /\ max_response_buffer_size \in {{}} \cup {{n} : n \in 0..MaxBufferSize}
    /\ response = NoResponse
    /\ completed = FALSE
    /\ received_error = NoError
    /\ response_buffer = <<>>
    /\ waker = FALSE
    /\ buffer_lock = "none"
    /\ error_lock = "none"
    /\ suspend_count = 0
    /\ cancel_count = 0
    /\ finished = FALSE
    /\ cbpc = "idle"
    /\ cb_arg = NoArg
    /\ cpc = "idle"
    /\ last_result = NoResult
    /\ n_data = 0 /\ n_headers = 0 /\ n_bytes = 0
    /\ accepted = <<>> /\ taken = <<>> /\ since_take = <<>>
    /\ hdr_pending = NoResponse /\ resp_log = <<>>
    /\ n_set_error = 0 /\ n_over = 0 /\ err_log = <<>> /\ observed_completed = FALSE
    /\ rtl_due = FALSE /\ term_due = NoError /\ first_due = NoError
    /\ term_error = NoError /\ term_captured = FALSE

\* no curl_escape call is in progress
EscapeIdle ==
    /\ str = <<>> /\ buf = <<>> /\ idx = 0
    /\ escpc = "idle"
    /\ n_escape = 0

Init == BridgeInit /\ EscapeIdle

\* ------------------------------------------------- collaborators (ivars.rs,
\* generic_waker.rs, the data task), modelled at their boundary

\* DataTaskIvars::set_error: first write wins; it locks the received_error
\* mutex for the length of the call, so its callers wait for error_lock
set_error(e) == IF received_error = NoError THEN e ELSE received_error

\* GenericWaker::wake: at least one wake stays pending
wake == TRUE

\* the transport calls a delegate method: callbacks of one transfer are
\* serialized, none follows the terminal event, none is delivered to a
\* suspended task
CanDeliver == cbpc = "idle" /\ ~finished /\ suspend_count = 0

\* history kept by every set_error call site
NoteSetError(e) ==
    /\ n_set_error' = n_set_error + 1
    /\ first_due' = IF first_due = NoError THEN e ELSE first_due

\* ------------------------------------------------------ didReceiveResponse

\* line 115: data_task.suspend()
didReceiveResponse_suspend ==
    /\ CanDeliver
    /\ n_headers < MaxHeaders
    /\ \E h \in BOOLEAN :
         cb_arg' = [NoArg EXCEPT !.resp = [id |-> n_headers + 1, http |-> h]]
    /\ n_headers' = n_headers + 1
    /\ suspend_count' = suspend_count + 1
    /\ cbpc' = "h_allow"
    /\ UNCHANGED <<fixed, error_lock, shared, cancel_count, finished, cpc,
                   last_result, n_data, n_bytes, bufhist, resphist, errhist>>

\* line 117: completion_handler.call((Allow,))
didReceiveResponse_allow ==
    /\ cbpc = "h_allow"
    /\ cbpc' = "h_store"
    /\ UNCHANGED <<fixed, error_lock, shared, task, cb_arg, cpc, last_result,
                   counters, bufhist, resphist, errhist>>

\* line 119: response.store(Some(response.copy()))
didReceiveResponse_store ==
    /\ cbpc = "h_store"
    /\ response' = cb_arg.resp
    /\ hdr_pending' = cb_arg.resp
    /\ cbpc' = "h_wake"
    /\ UNCHANGED <<fixed, error_lock, completed, received_error, response_buffer,
                   waker, buffer_lock, task, cb_arg, cpc, last_result, counters, bufhist,
                   resp_log, errhist>>

\* didReceiveResponse resuming the task before it returns
didReceiveResponse_wake_resume ==
    /\ cbpc = "h_wake"
    /\ waker' = wake
    /\ suspend_count' = IF suspend_count > 0 THEN suspend_count - 1 ELSE 0
    /\ cbpc' = "idle"
    /\ cb_arg' = NoArg
    /\ UNCHANGED <<fixed, error_lock, response, completed, received_error,
                   response_buffer, buffer_lock, cancel_count, finished, cpc, last_result,
                   counters, bufhist, resphist, errhist>>

\* didReceiveResponse returning without the wake
didReceiveResponse_wake_missing ==
    /\ cbpc = "h_wake"
    /\ waker' = waker
    /\ cbpc' = "idle"
    /\ cb_arg' = NoArg
    /\ UNCHANGED <<fixed, error_lock, response, completed, received_error,
                   response_buffer, buffer_lock, task, cpc, last_result, counters,
                   bufhist, resphist, errhist>>

\* line 120: waker.wake()
didReceiveResponse_wake ==
    /\ cbpc = "h_wake"
    /\ waker' = wake
    /\ cbpc' = "idle"
    /\ cb_arg' = NoArg
    /\ UNCHANGED <<fixed, error_lock, response, completed, received_error,
                   response_buffer, buffer_lock, task, cpc, last_result, counters,
                   bufhist, resphist, errhist>>

\* ---------------------------------------------------- didCompleteWithError

\* line 129: completed.store(true)
didCompleteWithError_store ==
    /\ CanDeliver
    /\ \E e \in {NoError, TransportError} :
         /\ cb_arg' = [NoArg EXCEPT !.error = e]
         /\ term_error' = e
    /\ finished' = TRUE
    /\ completed' = TRUE
    /\ cbpc' = "c_error"
    /\ UNCHANGED <<fixed, error_lock, response, received_error, response_buffer,
                   waker, buffer_lock, suspend_count, cancel_count, cpc, last_result,
                   counters, bufhist, resphist, n_set_error, n_over, err_log,
                   observed_completed, rtl_due, term_due, first_due, term_captured>>

\* didCompleteWithError that does not record the error it was given
didCompleteWithError_set_error_dropped ==
    /\ cbpc = "c_error"
    /\ IF cb_arg.error # NoError
         THEN /\ NoteSetError(cb_arg.error)
              /\ term_due' = cb_arg.error
              /\ term_captured' = TRUE
              /\ UNCHANGED <<received_error, n_over, err_log, observed_completed, rtl_due,
                             term_error>>
         ELSE UNCHANGED <<received_error, errhist>>
    /\ cbpc' = "c_wake"
    /\ UNCHANGED <<fixed, error_lock, response, completed, response_buffer, waker,
                   buffer_lock, task, cb_arg, cpc, last_result, counters, bufhist,
                   resphist>>

\* didCompleteWithError writing the error slot itself, over what it holds
didCompleteWithError_set_error_overwrite ==
    /\ cbpc = "c_error"
    /\ IF cb_arg.error # NoError
         THEN /\ error_lock = "none"
              /\ received_error' = cb_arg.error
              /\ NoteSetError(cb_arg.error)
              /\ term_due' = cb_arg.error
              /\ term_captured' = TRUE
              /\ UNCHANGED <<n_over, err_log, observed_completed, rtl_due, term_error>>
         ELSE UNCHANGED <<received_error, errhist>>
    /\ cbpc' = "c_wake"
    /\ UNCHANGED <<fixed, error_lock, response, completed, response_buffer, waker,
                   buffer_lock, task, cb_arg, cpc, last_result, counters, bufhist,
                   resphist>>

\* lines 130-132: if let Some(error) = error { set_error(error.copy()) }
didCompleteWithError_set_error ==
    /\ cbpc = "c_error"
    /\ IF cb_arg.error # NoError
         THEN /\ error_lock = "none"
              /\ received_error' = set_error(cb_arg.error)
              /\ NoteSetError(cb_arg.error)
              /\ term_due' = cb_arg.error
              /\ term_captured' = TRUE
              /\ UNCHANGED <<n_over, err_log, observed_completed, rtl_due, term_error>>
         ELSE UNCHANGED <<received_error, errhist>>
    /\ cbpc' = "c_wake"
    /\ UNCHANGED <<fixed, error_lock, response, completed, response_buffer, waker,
                   buffer_lock, task, cb_arg, cpc, last_result, counters, bufhist,
                   resphist>>

\* didCompleteWithError returning without the wake
didCompleteWithError_wake_missing ==
    /\ cbpc = "c_wake"
    /\ waker' = waker
    /\ cbpc' = "idle"
    /\ cb_arg' = NoArg
    /\ UNCHANGED <<fixed, error_lock, response, completed, received_error,
                   response_buffer, buffer_lock, task, cpc, last_result, counters,
                   bufhist, resphist, errhist>>

\* line 133: waker.wake()
didCompleteWithError_wake ==
    /\ cbpc = "c_wake"
    /\ waker' = wake
    /\ cbpc' = "idle"
    /\ cb_arg' = NoArg
    /\ UNCHANGED <<fixed, error_lock, response, completed, received_error,
                   response_buffer, buffer_lock, task, cpc, last_result, counters,
                   bufhist, resphist, errhist>>

\* ---------------------------------------------------------- didReceiveData

\* the size check rejecting a chunk that fills the buffer exactly
TooLarge_ge(buffer, data, max) == \E m \in max : Len(buffer) + Len(data) >= m

\* line 145: buffer.len() + data.len() > max_response_buffer_size as usize
TooLarge(buffer, data, max) == \E m \in max : Len(buffer) + Len(data) > m

\* line 142: response_buffer.lock().unwrap()
didReceiveData_lock ==
    /\ CanDeliver
    /\ n_data < MaxData
    /\ buffer_lock = "none"
    /\ \E len \in 0..MaxChunkLen :
         /\ cb_arg' = [NoArg EXCEPT !.chunk = Serial(n_bytes, len)]
         /\ n_bytes' = n_bytes + len
         /\ n_over' = IF \E m \in max_response_buffer_size : Len(response_buffer) + len > m
                        THEN n_over + 1 ELSE n_over
    /\ n_data' = n_data + 1
    /\ buffer_lock' = "callback"
    /\ cbpc' = "d_check"
    /\ UNCHANGED <<fixed, error_lock, response, completed, received_error,
                   response_buffer, waker, task, cpc, last_result, n_headers, bufhist,
                   resphist, n_set_error, err_log, observed_completed, rtl_due, term_due,
                   first_due, term_error, term_captured>>

\* didReceiveData with the check after the append
didReceiveData_check_after_append ==
    /\ cbpc = "d_check"
    /\ buffer_lock' = "none"
    /\ response_buffer' = response_buffer \o cb_arg.chunk
    /\ accepted' = accepted \o cb_arg.chunk
    /\ since_take' = since_take \o cb_arg.chunk
    /\ IF TooLarge(response_buffer, cb_arg.chunk, max_response_buffer_size)
         THEN /\ cbpc' = "d_error"
              /\ UNCHANGED cb_arg
         ELSE /\ cbpc' = "idle"
              /\ cb_arg' = NoArg
    /\ UNCHANGED <<fixed, error_lock, response, completed, received_error, waker,
                   task, cpc, last_result, counters, resphist, errhist, taken>>

\* didReceiveData putting the chunk in front of the buffered bytes
didReceiveData_check_prepend ==
    /\ cbpc = "d_check"
    /\ buffer_lock' = "none"
    /\ IF TooLarge(response_buffer, cb_arg.chunk, max_response_buffer_size)
         THEN /\ cbpc' = "d_error"
              /\ UNCHANGED <<response_buffer, cb_arg, bufhist>>
         ELSE /\ response_buffer' = cb_arg.chunk \o response_buffer
              /\ accepted' = accepted \o cb_arg.chunk
              /\ since_take' = since_take \o cb_arg.chunk
              /\ cbpc' = "idle"
              /\ cb_arg' = NoArg
              /\ UNCHANGED taken
    /\ UNCHANGED <<fixed, error_lock, response, completed, received_error, waker,
                   task, cpc, last_result, counters, resphist, errhist>>

\* didReceiveData keeping the part of a refused chunk that still fits
didReceiveData_check_truncate ==
    /\ cbpc = "d_check"
    /\ buffer_lock' = "none"
    /\ IF TooLarge(response_buffer, cb_arg.chunk, max_response_buffer_size)
         THEN /\ \E m \in max_response_buffer_size :
                   response_buffer' = response_buffer
                       \o SubSeq(cb_arg.chunk, 1, m - Len(response_buffer))
              /\ cbpc' = "d_error"
              /\ UNCHANGED <<cb_arg, bufhist>>
         ELSE /\ response_buffer' = response_buffer \o cb_arg.chunk
              /\ accepted' = accepted \o cb_arg.chunk
              /\ since_take' = since_take \o cb_arg.chunk
              /\ cbpc' = "idle"
              /\ cb_arg' = NoArg
              /\ UNCHANGED taken
    /\ UNCHANGED <<fixed, error_lock, response, completed, received_error, waker,
                   task, cpc, last_result, counters, resphist, errhist>>

\* didReceiveData keeping the buffer guard alive on the reject branch
didReceiveData_check_keep_lock ==
    /\ cbpc = "d_check"
    /\ IF TooLarge(response_buffer, cb_arg.chunk, max_response_buffer_size)
         THEN /\ cbpc' = "d_error"
              /\ UNCHANGED <<response_buffer, buffer_lock, cb_arg, bufhist>>
         ELSE /\ response_buffer' = response_buffer \o cb_arg.chunk
              /\ accepted' = accepted \o cb_arg.chunk
              /\ since_take' = since_take \o cb_arg.chunk
              /\ buffer_lock' = "none"
              /\ cbpc' = "idle"
              /\ cb_arg' = NoArg
              /\ UNCHANGED taken
    /\ UNCHANGED <<fixed, error_lock, response, completed, received_error, waker,
                   task, cpc, last_result, counters, resphist, errhist>>

\* didReceiveData bounding the bytes accepted over the whole transfer
didReceiveData_check_cumulative ==
    /\ cbpc = "d_check"
    /\ buffer_lock' = "none"
    /\ IF TooLarge(accepted, cb_arg.chunk, max_response_buffer_size)
         THEN /\ cbpc' = "d_error"
              /\ UNCHANGED <<response_buffer, cb_arg, bufhist>>
         ELSE /\ response_buffer' = response_buffer \o cb_arg.chunk
              /\ accepted' = accepted \o cb_arg.chunk
              /\ since_take' = since_take \o cb_arg.chunk
              /\ cbpc' = "idle"
              /\ cb_arg' = NoArg
              /\ UNCHANGED taken
    /\ UNCHANGED <<fixed, error_lock, response, completed, received_error, waker,
                   task, cpc, last_result, counters, resphist, errhist>>

\* didReceiveData replacing the buffered bytes by the chunk
didReceiveData_check_overwrite ==
    /\ cbpc = "d_check"
    /\ buffer_lock' = "none"
    /\ IF TooLarge(response_buffer, cb_arg.chunk, max_response_buffer_size)
         THEN /\ cbpc' = "d_error"
              /\ UNCHANGED <<response_buffer, cb_arg, bufhist>>
         ELSE /\ response_buffer' = cb_arg.chunk
              /\ accepted' = accepted \o cb_arg.chunk
              /\ since_take' = since_take \o cb_arg.chunk
              /\ cbpc' = "idle"
              /\ cb_arg' = NoArg
              /\ UNCHANGED taken
    /\ UNCHANGED <<fixed, error_lock, response, completed, received_error, waker,
                   task, cpc, last_result, counters, resphist, errhist>>

\* lines 144-154: the size check, then drop(buffer) on the way to set_error, or
\* extend_from_slice and the guard's drop at the end of the function
didReceiveData_check ==
    /\ cbpc = "d_check"
    /\ buffer_lock' = "none"
    /\ IF TooLarge(response_buffer, cb_arg.chunk, max_response_buffer_size)
         THEN /\ cbpc' = "d_error"
              /\ UNCHANGED <<response_buffer, cb_arg, bufhist>>
         ELSE /\ response_buffer' = response_buffer \o cb_arg.chunk
              /\ accepted' = accepted \o cb_arg.chunk
              /\ since_take' = since_take \o cb_arg.chunk
              /\ cbpc' = "idle"
              /\ cb_arg' = NoArg
              /\ UNCHANGED taken
    /\ UNCHANGED <<fixed, error_lock, response, completed, received_error, waker,
                   task, cpc, last_result, counters, resphist, errhist>>

\* line 147: set_error(ResponseTooLarge)
didReceiveData_set_error ==
    /\ cbpc = "d_error"
    /\ error_lock = "none"
    /\ received_error' = set_error(ResponseTooLarge)
    /\ NoteSetError(ResponseTooLarge)
    /\ rtl_due' = TRUE
    /\ cbpc' = "d_cancel"
    /\ UNCHANGED <<fixed, error_lock, response, completed, response_buffer, waker,
                   buffer_lock, task, cb_arg, cpc, last_result, counters, bufhist,
                   resphist, n_over, err_log, observed_completed, term_due, term_error,
                   term_captured>>

\* lines 148-151: data_task.cancel(); return
didReceiveData_cancel ==
    /\ cbpc = "d_cancel"
    /\ cancel_count' = cancel_count + 1
    /\ cbpc' = "idle"
    /\ cb_arg' = NoArg
    /\ UNCHANGED <<fixed, error_lock, shared, suspend_count, finished, cpc,
                   last_result, counters, bufhist, resphist, errhist>>

\* ------------------------------------------------------------ the consumer

\* history kept by a poll that returns the captured error
NoteErrReturned(e) ==
    /\ err_log' = Append(err_log, e)
    /\ rtl_due' = FALSE
    /\ term_due' = NoError
    /\ first_due' = NoError
    /\ UNCHANGED <<n_set_error, n_over, observed_completed, term_error, term_captured>>

\* line 165: received_error.lock().unwrap()
try_take_response_error_lock ==
    /\ cpc = "idle"
    /\ error_lock = "none"
    /\ error_lock' = "consumer"
    /\ cpc' = "t_err"
    /\ UNCHANGED <<fixed, shared, task, cbpc, cb_arg, last_result, counters,
                   bufhist, resphist, errhist>>

\* try_take_response returning the captured error without taking it
try_take_response_err_peek ==
    /\ cpc = "t_err"
    /\ error_lock' = "none"
    /\ IF received_error # NoError
         THEN /\ last_result' = [NoResult EXCEPT !.op = "try_take_response",
                                                 !.ok = FALSE, !.err = received_error]
              /\ received_error' = received_error
              /\ NoteErrReturned(received_error)
              /\ cpc' = "ret"
         ELSE /\ cpc' = "t_swap"
              /\ UNCHANGED <<received_error, last_result, errhist>>
    /\ UNCHANGED <<fixed, response, completed, response_buffer, waker,
                   buffer_lock, task, cbpc, cb_arg, counters, bufhist, resphist>>

\* lines 165-167: if let Some(error) = received_error.lock().unwrap().take()
try_take_response_err ==
    /\ cpc = "t_err"
    /\ error_lock' = "none"
    /\ IF received_error # NoError
         THEN /\ last_result' = [NoResult EXCEPT !.op = "try_take_response",
                                                 !.ok = FALSE, !.err = received_error]
              /\ received_error' = NoError
              /\ NoteErrReturned(received_error)
              /\ cpc' = "ret"
         ELSE /\ cpc' = "t_swap"
              /\ UNCHANGED <<received_error, last_result, errhist>>
    /\ UNCHANGED <<fixed, response, completed, response_buffer, waker,
                   buffer_lock, task, cbpc, cb_arg, counters, bufhist, resphist>>

\* line 169: res.0.downcast::<NSHTTPURLResponse>().ok()
downcast(res) == IF res.http THEN res ELSE NoResponse

\* try_take_response loading the slot without emptying it
try_take_response_swap_load ==
    /\ cpc = "t_swap"
    /\ response' = response
    /\ last_result' = [NoResult EXCEPT !.op = "try_take_response",
                                       !.resp = downcast(response)]
    /\ resp_log' = IF downcast(response).id # 0
                     THEN Append(resp_log, downcast(response).id) ELSE resp_log
    /\ hdr_pending' = NoResponse
    /\ cpc' = "ret"
    /\ UNCHANGED <<fixed, error_lock, completed, received_error, response_buffer,
                   waker, buffer_lock, task, cbpc, cb_arg, counters, bufhist, errhist>>

\* lines 168-169: response.swap(None), and_then the downcast
try_take_response_swap ==
    /\ cpc = "t_swap"
    /\ response' = NoResponse
    /\ last_result' = [NoResult EXCEPT !.op = "try_take_response",
                                       !.resp = downcast(response)]
    /\ resp_log' = IF downcast(response).id # 0
                     THEN Append(resp_log, downcast(response).id) ELSE resp_log
    /\ hdr_pending' = NoResponse
    /\ cpc' = "ret"
    /\ UNCHANGED <<fixed, error_lock, completed, received_error, response_buffer,
                   waker, buffer_lock, task, cbpc, cb_arg, counters, bufhist, errhist>>

\* lines 172-178: completed.load()
is_completed_swap ==
    /\ cpc = "idle"
    /\ last_result' = [NoResult EXCEPT !.op = "is_completed", !.flag = completed]
    /\ completed' = FALSE
    /\ observed_completed' = (observed_completed \/ completed)
    /\ cpc' = "ret"
    /\ UNCHANGED <<fixed, error_lock, response, received_error, response_buffer, waker,
                   buffer_lock, task, cbpc, cb_arg, counters,
                   bufhist, resphist, n_set_error, n_over, err_log, rtl_due, term_due,
                   first_due, term_error, term_captured>>

is_completed ==
    /\ cpc = "idle"
    /\ last_result' = [NoResult EXCEPT !.op = "is_completed", !.flag = completed]
    /\ observed_completed' = (observed_completed \/ completed)
    /\ cpc' = "ret"
    /\ UNCHANGED <<fixed, error_lock, shared, task, cbpc, cb_arg, counters,
                   bufhist, resphist, n_set_error, n_over, err_log, rtl_due, term_due,
                   first_due, term_error, term_captured>>

\* line 183: received_error.lock().unwrap()
take_response_buffer_error_lock ==
    /\ cpc = "idle"
    /\ error_lock = "none"
    /\ error_lock' = "consumer"
    /\ cpc' = "b_err"
    /\ UNCHANGED <<fixed, shared, task, cbpc, cb_arg, last_result, counters,
                   bufhist, resphist, errhist>>

\* take_response_buffer discarding the buffered bytes when it returns the error
take_response_buffer_err_clearing ==
    /\ cpc = "b_err"
    /\ error_lock' = "none"
    /\ IF received_error # NoError
         THEN /\ last_result' = [NoResult EXCEPT !.op = "take_response_buffer",
                                                 !.ok = FALSE, !.err = received_error]
              /\ received_error' = NoError
              /\ response_buffer' = <<>>
              /\ NoteErrReturned(received_error)
              /\ cpc' = "ret"
         ELSE /\ cpc' = "b_lock"
              /\ UNCHANGED <<received_error, response_buffer, last_result, errhist>>
    /\ UNCHANGED <<fixed, response, completed, waker,
                   buffer_lock, task, cbpc, cb_arg, counters, bufhist, resphist>>

\* lines 183-184: received_error.lock().unwrap().take(), returned by `?`
take_response_buffer_err ==
    /\ cpc = "b_err"
    /\ error_lock' = "none"
    /\ IF received_error # NoError
         THEN /\ last_result' = [NoResult EXCEPT !.op = "take_response_buffer",
                                                 !.ok = FALSE, !.err = received_error]
              /\ received_error' = NoError
              /\ NoteErrReturned(received_error)
              /\ cpc' = "ret"
         ELSE /\ cpc' = "b_lock"
              /\ UNCHANGED <<received_error, last_result, errhist>>
    /\ UNCHANGED <<fixed, response, completed, response_buffer, waker,
                   buffer_lock, task, cbpc, cb_arg, counters, bufhist, resphist>>

\* line 186: response_buffer.lock().unwrap()
take_response_buffer_lock ==
    /\ cpc = "b_lock"
    /\ buffer_lock = "none"
    /\ buffer_lock' = "consumer"
    /\ cpc' = "b_take"
    /\ UNCHANGED <<fixed, error_lock, response, completed, received_error,
                   response_buffer, waker, task, cbpc, cb_arg, last_result, counters,
                   bufhist, resphist, errhist>>

\* take_response_buffer returning a copy and leaving the bytes buffered
take_response_buffer_take_clone ==
    /\ cpc = "b_take"
    /\ last_result' = [NoResult EXCEPT !.op = "take_response_buffer",
                                       !.bytes = response_buffer,
                                       !.flag = completed]
    /\ response_buffer' = response_buffer
    /\ taken' = taken \o response_buffer
    /\ since_take' = <<>>
    /\ buffer_lock' = "none"
    /\ cpc' = "ret"
    /\ UNCHANGED <<fixed, error_lock, response, completed, received_error, waker,
                   task, cbpc, cb_arg, counters, accepted, resphist, errhist>>

\* line 187: Ok(std::mem::take(&mut *buffer)), and the guard's drop
take_response_buffer_take ==
    /\ cpc = "b_take"
    /\ last_result' = [NoResult EXCEPT !.op = "take_response_buffer",
                                       !.bytes = response_buffer,
                                       !.flag = completed]
    /\ response_buffer' = <<>>
    /\ taken' = taken \o response_buffer
    /\ since_take' = <<>>
    /\ buffer_lock' = "none"
    /\ cpc' = "ret"
    /\ UNCHANGED <<fixed, error_lock, response, completed, received_error, waker,
                   task, cbpc, cb_arg, counters, accepted, resphist, errhist>>

\* a poll returns: the caller has the result in hand until it goes on
poll_return ==
    /\ cpc = "ret"
    /\ cpc' = "idle"
    /\ last_result' = NoResult
    /\ UNCHANGED <<fixed, error_lock, shared, task, cbpc, cb_arg, counters,
                   bufhist, resphist, errhist>>

\* the consumer blocks on waker_ref() until a wake is pending, and consumes it
wait ==
    /\ cpc = "idle"
    /\ waker
    /\ waker' = FALSE
    /\ UNCHANGED <<fixed, error_lock, response, completed, received_error,
                   response_buffer, buffer_lock, task, cbpc, cb_arg, cpc, last_result,
                   counters, bufhist, resphist, errhist>>

\* the consumer resumes the task the headers callback suspended
resume ==
    /\ cpc = "idle"
    /\ suspend_count > 0
    /\ suspend_count' = suspend_count - 1
    /\ UNCHANGED <<fixed, error_lock, shared, cancel_count, finished, cbpc, cb_arg,
                   cpc, last_result, counters, bufhist, resphist, errhist>>

Next ==
    \/ didReceiveResponse_suspend
    \/ didReceiveResponse_allow
    \/ didReceiveResponse_store
    \/ didReceiveResponse_wake
    \/ didCompleteWithError_store
    \/ didCompleteWithError_set_error
    \/ didCompleteWithError_wake
    \/ didReceiveData_lock
    \/ didReceiveData_check
    \/ didReceiveData_set_error
    \/ didReceiveData_cancel
    \/ try_take_response_error_lock
    \/ try_take_response_err
    \/ try_take_response_swap
    \/ is_completed
    \/ take_response_buffer_error_lock
    \/ take_response_buffer_err
    \/ take_response_buffer_lock
    \/ take_response_buffer_take
    \/ poll_return
    \/ wait
    \/ resume

Spec == Init /\ [][Next]_vars

\* ------------------------------------------------------------------ claims

\* every byte the transport has delivered so far, in arrival order
Delivered == Serial(0, n_bytes)

\* the call that has just returned is a take_response_buffer that succeeded
TookBuffer == cpc = "ret" /\ last_result.op = "take_response_buffer" /\ last_result.ok

\* C1: when max_response_buffer_size is set, the body buffer never holds more
\* than max_response_buffer_size bytes, in any state of any interleaving of
\* the data callback with the consumer's polls.
C1_BufferWithinMax ==
    \A m \in max_response_buffer_size : Len(response_buffer) <= m

\* C1 witness: a chunk that does not fit has just been refused while the
\* buffer holds bytes.
C1_Witness ==
    /\ cbpc = "d_error"
    /\ response_buffer # <<>>
    /\ \E m \in max_response_buffer_size :
         /\ Len(response_buffer) <= m
         /\ Len(response_buffer) + Len(cb_arg.chunk) > m

\* C2: when the chunks delivered stay within max_response_buffer_size (or no
\* maximum is set), the terminal event carried no error and no earlier call
\* drained bytes, a take_response_buffer that reads the buffer after the
\* completed flag is set returns all delivered chunks, concatenated in
\* arrival order.
C2_FullBodyAfterCompletion ==
    ( /\ TookBuffer
      /\ last_result.flag
      /\ term_error = NoError
      /\ taken = last_result.bytes
      /\ \A m \in max_response_buffer_size : n_bytes <= m )
    => last_result.bytes = Delivered

\* C2 witness: two chunks under a configured maximum, then completion without
\* error, then the first drain returns both.
C2_Witness ==
    /\ TookBuffer
    /\ last_result.flag
    /\ term_error = NoError
    /\ max_response_buffer_size # {}
    /\ n_data = 2
    /\ Len(last_result.bytes) >= 2
    /\ last_result.bytes = Delivered
    /\ taken = last_result.bytes

\* the two polls that surface a captured error
Polls == {"try_take_response", "take_response_buffer"}

\* a poll runs its error check (line 165 or 183) in this step
PollErrorCheck ==
    /\ cpc \in {"t_err", "b_err"}
    /\ \/ cpc' \in {"t_swap", "b_lock"}
       \/ cpc' = "ret" /\ last_result'.op \in Polls

\* the poll whose error check runs in this step returns the error e
PollReturnsError(e) ==
    /\ cpc \in {"t_err", "b_err"}
    /\ cpc' = "ret"
    /\ last_result'.op \in Polls
    /\ ~last_result'.ok
    /\ last_result'.err = e

\* the data callback is handling a chunk that did not fit when it locked
InReject == cbpc \in {"d_check", "d_error", "d_cancel"} /\ n_over > cancel_count

C4_TerminalErrorIsNext ==
    [][ /\ term_due' # NoError => completed'
        /\ (term_due # NoError /\ PollErrorCheck) => PollReturnsError(term_due) ]_vars

\* C4 amended: once didCompleteWithError has passed a non-null error to
\* set_error while no earlier captured error was still untaken, completed is
\* true and the next error check of either poll returns that error; no poll
\* returns the terminal error more than once.
C4_TerminalErrorIsNextUnlessEarlier ==
    [][ /\ term_due' # NoError => completed'
        /\ (term_due # NoError /\ ~rtl_due /\ PollErrorCheck) => PollReturnsError(term_due)
        /\ Cardinality({i \in DOMAIN err_log' : err_log'[i] = TransportError}) <= 1 ]_vars

\* C4 witness: the terminal error was captured into an empty slot and a poll
\* has returned it, with completed set.
C4_Witness ==
    /\ cpc = "ret"
    /\ last_result.op \in Polls
    /\ ~last_result.ok
    /\ last_result.err = TransportError
    /\ term_error = TransportError
    /\ completed
    /\ received_error = NoError

\* C5: a consumer that has seen is_completed() return true, for a transfer
\* whose terminal event carried an error, gets no success from
\* try_take_response or take_response_buffer before that error has been
\* passed to set_error.
C5_NoSuccessBeforeTerminalError ==
    ( /\ cpc = "ret"
      /\ last_result.op \in Polls
      /\ last_result.ok
      /\ observed_completed
      /\ term_error # NoError )
    => term_captured

\* C6: the first error passed to set_error since the last poll took one is
\* the error the next error check of either poll returns; a later set_error
\* (the terminal event's, after a ResponseTooLarge) does not replace it.
C6_FirstErrorWins ==
    [][ (first_due # NoError /\ PollErrorCheck) => PollReturnsError(first_due) ]_vars

\* C6 witness: the terminal event's error was passed to set_error while a
\* ResponseTooLarge was captured and untaken, and the first poll to return
\* an error has returned ResponseTooLarge.
C6_Witness ==
    /\ cpc = "ret"
    /\ last_result.op \in Polls
    /\ ~last_result.ok
    /\ last_result.err = ResponseTooLarge
    /\ err_log = <<ResponseTooLarge>>
    /\ term_captured
    /\ term_error = TransportError
    /\ cancel_count >= 1

\* try_take_response runs its swap (lines 168-169) and returns in this step
SwapReturns == cpc = "t_swap" /\ cpc' = "ret"

\* no response id occurs twice in the log of returned responses
NoResponseTwice(log) == \A i, j \in DOMAIN log : log[i] = log[j] => i = j

C8_TakeReturnsNewBytes ==
    [][ (cpc = "b_take" /\ cpc' = "ret")
          => (last_result'.ok /\ last_result'.bytes = since_take) ]_vars

\* C8 witness: a take that follows an earlier non-empty take has returned
\* the bytes that arrived in between, and only those.
C8_Witness ==
    /\ TookBuffer
    /\ last_result.bytes # <<>>
    /\ Len(taken) > Len(last_result.bytes)
    /\ taken = accepted

\* C9: a poll returns an error only if set_error was called since the last
\* poll that returned one, so one captured error is surfaced by at most one
\* call of the two polls together.
C9_ErrorSurfacedOnce ==
    [][ ( /\ cpc \in {"t_err", "b_err"}
          /\ cpc' = "ret"
          /\ last_result'.op \in Polls
          /\ ~last_result'.ok )
        => (first_due # NoError /\ Len(err_log') <= n_set_error') ]_vars

\* C9 witness: after a poll returned the captured error, a later poll has
\* returned a success with no new error captured.
C9_Witness ==
    /\ cpc = "ret"
    /\ last_result.op \in Polls
    /\ last_result.ok
    /\ Len(err_log) = 1
    /\ n_set_error = 1
    /\ first_due = NoError

\* C10: once a data callback has captured an error (and called cancel()),
\* every later data callback appends nothing, captures nothing and calls
\* cancel() no more.
C10_LaterDataIsNoOp ==
    [][ ( /\ cancel_count >= 1
          /\ cbpc \in {"d_check", "d_error", "d_cancel"}
          /\ cbpc' # cbpc )
        => ( /\ response_buffer' = response_buffer
             /\ received_error' = received_error
             /\ cancel_count' = cancel_count ) ]_vars

\* the callback thread is inside the headers callback, past its suspend()
InHeaders == cbpc \in {"h_allow", "h_store", "h_wake"}

\* C11 as stated: once the headers callback has returned, the task is not
\* left suspended: whenever no callback is running, no suspend() is
\* outstanding.
C11_NotLeftPaused == cbpc = "idle" => suspend_count = 0

\* C11 amended: the headers callback suspends the task on entry and never
\* resumes it: its entry raises the count of outstanding suspend() calls by
\* one and none of its later steps changes it, so the task stays paused after
\* the callback returns until the consumer resumes it; the callback's last
\* step leaves a wake pending.
C11_PausedUntilConsumerResumes ==
    [][ /\ (cbpc = "idle" /\ cbpc' = "h_allow") => suspend_count' = suspend_count + 1
        /\ (InHeaders /\ cbpc' # cbpc) => suspend_count' = suspend_count
        /\ (cbpc = "h_wake" /\ cbpc' = "idle") => waker' ]_vars

\* C11 witness: the headers callback has returned, its response is stored and
\* a wake is pending, and the task is still suspended.
C11_Witness ==
    /\ cbpc = "idle"
    /\ n_headers = 1
    /\ response.id = 1
    /\ waker
    /\ suspend_count = 1
    /\ cpc = "idle"

\* ------------------------------------------- the consumer's polling protocol
\* loop { try_take_response: an error or a response ends the loop;
\*        is_completed: true ends the loop; wait }

\* lines 172-178, called after try_take_response returned Ok(None)
protocol_is_completed ==
    /\ cpc = "ret"
    /\ last_result.op = "try_take_response"
    /\ last_result.ok
    /\ last_result.resp = NoResponse
    /\ last_result' = [NoResult EXCEPT !.op = "is_completed", !.flag = completed]
    /\ observed_completed' = (observed_completed \/ completed)
    /\ UNCHANGED <<fixed, error_lock, shared, task, cbpc, cb_arg, cpc, counters,
                   bufhist, resphist, n_set_error, n_over, err_log, rtl_due, term_due,
                   first_due, term_error, term_captured>>

\* is_completed returned false: block on the waker until a wake is pending,
\* consume it and poll again
protocol_wait ==
    /\ cpc = "ret"
    /\ last_result.op = "is_completed"
    /\ ~last_result.flag
    /\ waker
    /\ waker' = FALSE
    /\ cpc' = "idle"
    /\ last_result' = NoResult
    /\ UNCHANGED <<fixed, error_lock, response, completed, received_error, response_buffer,
                   buffer_lock, task, cbpc, cb_arg, counters, bufhist, resphist, errhist>>

\* the task the headers callback suspended is resumed, as the eventual
\* delivery of the terminal event presupposes
protocol_resume ==
    /\ suspend_count > 0
    /\ suspend_count' = suspend_count - 1
    /\ UNCHANGED <<fixed, error_lock, shared, cancel_count, finished, cbpc, cb_arg,
                   cpc, last_result, counters, bufhist, resphist, errhist>>

CallbackThread ==
    \/ didReceiveResponse_suspend
    \/ didReceiveResponse_allow
    \/ didReceiveResponse_store
    \/ didReceiveResponse_wake
    \/ didCompleteWithError_store
    \/ didCompleteWithError_set_error
    \/ didCompleteWithError_wake
    \/ didReceiveData_lock
    \/ didReceiveData_check
    \/ didReceiveData_set_error
    \/ didReceiveData_cancel

ProtocolConsumer ==
    \/ try_take_response_error_lock
    \/ try_take_response_err
    \/ try_take_response_swap
    \/ protocol_is_completed
    \/ protocol_wait

LiveNext == CallbackThread \/ ProtocolConsumer \/ protocol_resume

\* both threads keep running, the transport delivers events while it has any
\* (the terminal event at the latest when the others are used up), and a
\* suspended task is resumed
LiveSpec ==
    /\ Init
    /\ [][LiveNext]_vars
    /\ WF_vars(CallbackThread)
    /\ WF_vars(ProtocolConsumer)
    /\ WF_vars(protocol_resume)

\* the protocol's loop has ended: a poll returned an error or a response, or
\* is_completed returned true
ProtocolDone ==
    /\ cpc = "ret"
    /\ \/ last_result.op = "try_take_response"
          /\ (~last_result.ok \/ last_result.resp # NoResponse)
       \/ last_result.op = "is_completed" /\ last_result.flag

\* C12: a consumer following the polling protocol is not blocked forever in
\* wait: under every interleaving it eventually observes the response, a
\* captured error or is_completed() == true.
C12_NoLostWakeup == <>ProtocolDone

\* C12 witness: with no headers event, the consumer found nothing, waited,
\* was released by the terminal event's wake, and then saw is_completed()
\* return true.
C12_Witness ==
    /\ ProtocolDone
    /\ last_result.op = "is_completed"
    /\ n_headers = 0
    /\ cbpc = "idle"
    /\ finished
    /\ ~waker

\* a consumer operation is running or returning in this step
ConsumerStep == cpc' # cpc

\* C13: the completed flag is monotonic: it is never reset, it becomes true
\* only in the completion handler (line 129), no consumer operation changes
\* it, and once is_completed() has returned true every later call returns
\* true.
C13_CompletedMonotonic ==
    [][ /\ completed => completed'
        /\ completed' # completed => cbpc = "idle" /\ cbpc' = "c_error"
        /\ ConsumerStep => completed' = completed
        /\ (/\ observed_completed
            /\ cpc = "idle"
            /\ cpc' = "ret"
            /\ last_result'.op = "is_completed") => last_result'.flag ]_vars

\* C13 witness: the terminal event has set the flag, the consumer has
\* drained the buffer with take_response_buffer, and is_completed() returns
\* true.
C13_Witness ==
    /\ observed_completed
    /\ cpc = "ret"
    /\ last_result.op = "is_completed"
    /\ last_result.flag
    /\ taken # <<>>
    /\ since_take = <<>>
    /\ response_buffer = <<>>
    /\ finished

\* a handler invocation ends in this step
Returns == cbpc # "idle" /\ cbpc' = "idle"

\* the callback thread is inside didReceiveData before or after this step
InData == {cbpc, cbpc'} \cap {"d_check", "d_error", "d_cancel"} # {}

\* the state the handlers mutate
Mutable == <<response, completed, received_error, response_buffer>>

\* C14 (as stated): every handler invocation that mutated the shared state
\* (response stored, chunk appended, error captured, completed set) ends
\* with a wake() issued after the mutation, so a wake is pending when the
\* handler returns.
C14_EveryMutationWoken ==
    [][ (Returns /\ (cbpc = "d_check" => response_buffer' # response_buffer))
            => waker' ]_vars

\* C14 (amended): the headers handler and the completion handler end with
\* wake(), issued after their mutations (the returning step sets the wake
\* and changes nothing else); the data handler appends a chunk or captures
\* ResponseTooLarge without ever calling wake().
C14_WakeAfterHeadersAndCompletion ==
    [][ /\ (Returns /\ ~InData) => (waker' /\ Mutable' = Mutable)
        /\ (cbpc' # cbpc /\ Mutable' # Mutable /\ ~InData)
               => cbpc' \in {"h_wake", "c_error", "c_wake"}
        /\ (cbpc' # cbpc /\ InData) => waker' = waker ]_vars

\* C14 witness: the headers wake was consumed by a wait, the task was
\* resumed, and the data handler appended a chunk and returned with no wake
\* pending.
C14_Witness ==
    /\ n_headers = 1
    /\ suspend_count = 0
    /\ cbpc = "idle"
    /\ response_buffer # <<>>
    /\ ~waker
    /\ ~finished

\* C15: a poll that returns the captured error leaves the stored data as it
\* was: the step in which try_take_response or take_response_buffer returns
\* an error changes neither the body buffer nor the response slot (it only
\* empties the error slot), so both are still there for the next call.
C15_ErrorPollKeepsData ==
    [][ (\E e \in {ResponseTooLarge, TransportError} : PollReturnsError(e))
            => /\ response_buffer' = response_buffer
               /\ response' = response
               /\ received_error' = NoError ]_vars

\* C15 witness: a poll has just returned an error while bytes are buffered
\* and a response is stored.
C15_Witness ==
    /\ cpc = "ret"
    /\ last_result.op \in Polls
    /\ ~last_result.ok
    /\ response_buffer # <<>>
    /\ response # NoResponse

\* C16: no body byte is lost, duplicated or reordered when the consumer
\* drains mid-transfer: under every interleaving, the successful
\* take_response_buffer results in call order, followed by the bytes still
\* buffered, are the accepted chunks in arrival order.
C16_NoByteLostOrReordered == taken \o response_buffer = accepted

\* C16 witness: the consumer drained bytes mid-transfer, and a later chunk
\* has been buffered behind them while the transfer is still running.
C16_Witness ==
    /\ taken # <<>>
    /\ response_buffer # <<>>
    /\ since_take = response_buffer
    /\ ~finished

\* the data handler runs its size check on the chunk in this step
SizeCheck == cbpc = "d_check" /\ cbpc' # "d_check"

\* C17: the size bound is inclusive: a chunk is rejected exactly when
\* len(buffer) + len(chunk) > max_response_buffer_size; a chunk that fits,
\* also one that fills the buffer to exactly the maximum, is appended and
\* the handler returns without capturing an error or cancelling; with no
\* maximum configured no chunk is rejected.
C17_BoundInclusive ==
    [][ SizeCheck =>
          IF /\ max_response_buffer_size # {}
             /\ \A m \in max_response_buffer_size :
                    Len(response_buffer) + Len(cb_arg.chunk) > m
            THEN /\ cbpc' = "d_error"
                 /\ response_buffer' = response_buffer
            ELSE /\ cbpc' = "idle"
                 /\ response_buffer' = response_buffer \o cb_arg.chunk
                 /\ received_error' = received_error
                 /\ cancel_count' = cancel_count ]_vars

\* C17 witness: a chunk brought the buffer to exactly the configured
\* maximum and was appended; no error was captured and no cancel issued.
C17_Witness ==
    /\ max_response_buffer_size = {Len(response_buffer)}
    /\ response_buffer # <<>>
    /\ cbpc = "idle"
    /\ received_error = NoError
    /\ cancel_count = 0
    /\ n_set_error = 0

\* C18: the bound applies to the buffered, unread bytes, not to the bytes
\* delivered over the transfer: as long as every chunk found the buffered
\* length plus its own length within the maximum (n_over = 0), every
\* delivered chunk was accepted, whatever the cumulative total, and no
\* ResponseTooLarge was captured and no cancel issued.
C18_BoundOnUnreadBytes ==
    (n_over = 0 /\ cbpc # "d_check")
        => /\ accepted = Delivered
           /\ cbpc \notin {"d_error", "d_cancel"}
           /\ received_error # ResponseTooLarge
           /\ cancel_count = 0

\* C18 witness: after a mid-transfer drain a later chunk was accepted
\* although the bytes delivered in total exceed the configured maximum.
C18_Witness ==
    /\ \E m \in max_response_buffer_size : n_bytes > m /\ m > 0
    /\ taken # <<>>
    /\ response_buffer # <<>>
    /\ accepted = Delivered
    /\ cbpc = "idle"
    /\ n_set_error = 0
    /\ cancel_count = 0

\* C19: no thread holds the buffer lock or the error lock while it calls
\* wake(), cancel() or set_error, and none holds both locks at once: the
\* callback holds the buffer lock only over its size check and append, the
\* consumer holds the error lock only over its take and the buffer lock
\* only over mem::take, and whoever holds a lock can always take the step
\* that releases it, so neither thread can block the other for good.
C19_NoLockAcrossCalls ==
    /\ buffer_lock = "callback" => cbpc = "d_check"
    /\ buffer_lock = "consumer" => cpc = "b_take"
    /\ error_lock = "consumer" => cpc \in {"t_err", "b_err"}
    /\ error_lock # "callback"
    /\ ~(buffer_lock = "consumer" /\ error_lock = "consumer")
    /\ buffer_lock = "callback" => ENABLED didReceiveData_check
    /\ buffer_lock = "consumer" => ENABLED take_response_buffer_take
    /\ error_lock = "consumer"
           => ENABLED (try_take_response_err \/ take_response_buffer_err)

\* C19 witness: the data handler has released the buffer lock on its reject
\* branch and is about to call set_error while the consumer holds the error
\* lock for its own take.
C19_Witness ==
    /\ cbpc = "d_error"
    /\ buffer_lock = "none"
    /\ error_lock = "consumer"
    /\ cpc = "b_err"

\* --------------------------------------------------------------- curl_escape
\* src/backends/curl/src/urlencoded.rs, one call per behaviour

\* the input bytes tried: the needle's own bytes, a space, a plus
Bytes == {" ", "%", "2", "0", "+"}

\* the bytes curl_easy_escape leaves as they are (RFC 3986 unreserved)
Unreserved == {"2", "0"}

\* %XX, the upper-case hexadecimal code of a byte
PercentCode(b) ==
    CASE b = " " -> <<"%", "2", "0">>
      [] b = "%" -> <<"%", "2", "5">>
      [] b = "+" -> <<"%", "2", "B">>

\* lines 20-27: curl_easy_escape(easy, str, len), copied into a Vec
RECURSIVE curl_easy_escape(_)
curl_easy_escape(s) ==
    IF s = <<>> THEN <<>>
    ELSE (IF Head(s) \in Unreserved THEN <<Head(s)>> ELSE PercentCode(Head(s)))
             \o curl_easy_escape(Tail(s))

\* line 31: b"%20"
Needle == <<"%", "2", "0">>

\* line 31: memmem::find(haystack, needle), None as the empty set
find(haystack, needle) ==
    LET hits == {p \in 0..(Len(haystack) - Len(needle)) :
                     SubSeq(haystack, p + 1, p + Len(needle)) = needle}
    IN  IF hits = {} THEN {} ELSE {CHOOSE p \in hits : \A q \in hits : p <= q}

\* line 32: buf.splice(lo..hi, with)
splice(b, lo, hi, with) == SubSeq(b, 1, lo) \o with \o SubSeq(b, hi + 1, Len(b))

\* the inputs of a call
EscapeInputs == UNION {[1..n -> Bytes] : n \in 0..MaxStrLen}

EscapeInit ==
    /\ BridgeInit
    /\ max_response_buffer_size = {}
    /\ str \in EscapeInputs
    /\ buf = <<>>
    /\ idx = 0
    /\ escpc = "start"
    /\ n_escape = 0

\* lines 16-30: the early return for an empty input, or the encoder call and
\* `let mut idx = 0`
escape_start ==
    /\ escpc = "start"
    /\ IF str = <<>>
         THEN /\ buf' = <<>>
              /\ escpc' = "done"
              /\ UNCHANGED <<idx, n_escape>>
         ELSE /\ buf' = curl_easy_escape(str)
              /\ n_escape' = n_escape + 1
              /\ idx' = 0
              /\ escpc' = "loop"
    /\ UNCHANGED <<str, max_response_buffer_size, error_lock, shared, task, cbpc, cb_arg,
                   cpc, last_result, counters, bufhist, resphist, errhist>>

\* lines 31-37 advancing the search start by the whole needle
escape_loop_skip3 ==
    /\ escpc = "loop"
    /\ LET found == find(SubSeq(buf, idx + 1, Len(buf)), Needle)
       IN  IF found # {}
             THEN \E pos \in found :
                    /\ buf' = splice(buf, idx + pos, idx + pos + 3, <<"+">>)
                    /\ idx' = idx + pos + 3
                    /\ escpc' = "loop"
             ELSE /\ escpc' = "done"
                  /\ UNCHANGED <<buf, idx>>
    /\ UNCHANGED <<str, n_escape, max_response_buffer_size, error_lock, shared, task,
                   cbpc, cb_arg, cpc, last_result, counters, bufhist, resphist, errhist>>

\* lines 31-37: one turn of the while-let loop, or its exit and `buf`
escape_loop ==
    /\ escpc = "loop"
    /\ LET found == find(SubSeq(buf, idx + 1, Len(buf)), Needle)
       IN  IF found # {}
             THEN \E pos \in found :
                    /\ buf' = splice(buf, idx + pos, idx + pos + 3, <<"+">>)
                    /\ idx' = idx + pos + 1
                    /\ escpc' = "loop"
             ELSE /\ escpc' = "done"
                  /\ UNCHANGED <<buf, idx>>
    /\ UNCHANGED <<str, n_escape, max_response_buffer_size, error_lock, shared, task,
                   cbpc, cb_arg, cpc, last_result, counters, bufhist, resphist, errhist>>

EscapeNext == escape_start \/ escape_loop

\* the call runs to its return
EscapeSpec == EscapeInit /\ [][EscapeNext]_vars /\ WF_vars(EscapeNext)

\* s with every occurrence of "%20" replaced by "+", read left to right
RECURSIVE ReplaceAll(_)
ReplaceAll(s) ==
    IF Len(s) < 3 THEN s
    ELSE IF SubSeq(s, 1, 3) = Needle
           THEN <<"+">> \o ReplaceAll(SubSeq(s, 4, Len(s)))
           ELSE <<Head(s)>> \o ReplaceAll(Tail(s))

\* "%20" occurs in s
HasNeedle(s) == \E p \in 1..(Len(s) - 2) : SubSeq(s, p, p + 2) = Needle

\* C20: curl_escape's loop terminates for every input (each turn shortens
\* what is left to search), and the call returns the percent-encoded input
\* with every "%20" replaced by "+" and all other bytes as they were, so no
\* "%20" is left; an empty input returns empty without calling the encoder.
C20_EscapeTerminatesAndReplaces ==
    /\ <>(escpc = "done")
    /\ [][ (escpc = "loop" /\ escpc' = "loop")
              => /\ Len(buf') - idx' < Len(buf) - idx
                 /\ idx' <= Len(buf') ]_vars
    /\ [](escpc = "done"
            => /\ buf = ReplaceAll(curl_easy_escape(str))
               /\ ~HasNeedle(buf)
               /\ str = <<>> => (buf = <<>> /\ n_escape = 0)
               /\ str # <<>> => n_escape = 1)

\* C20 witness: an input with two spaces in a row has been returned with
\* both "%20" replaced, the second found right behind the first "+".
C20_Witness ==
    /\ escpc = "done"
    /\ n_escape = 1
    /\ \E i \in 1..(Len(str) - 1) : str[i] = " " /\ str[i + 1] = " "
    /\ \E i \in 1..(Len(buf) - 1) : buf[i] = "+" /\ buf[i + 1] = "+"

====
